---- MODULE Spec2Model ----
(***************************************************************************)
(* A model of the B+tree engine of dragonfly (bptree_internal.h): the node *)
(* layout, the node primitives (BSearch, ShiftRight, ShiftLeft, Split,     *)
(* MergeFromRight, the rebalancing primitives and the two structural       *)
(* policies RebalanceChild and MergeOrRebalanceChild), and the tree level  *)
(* insertion and deletion that drive them.                                 *)
(*                                                                         *)
(* A node is a record [leaf, keys, children]; num_items_ is Len(keys).     *)
(* All index parameters are 0-based as in the source; the sequences that   *)
(* hold the slots are 1-based, so slot i of the source is keys[i + 1].     *)
(***************************************************************************)
EXTENDS Integers, Sequences, FiniteSets, TLC

VARIABLES
    kKeySize,   \* sizeof(T) of the instantiation, fixes the node capacities
    root,       \* BPTree::root_ (NullNode when no node is allocated)
    count_,     \* BPTree::count_, the value of size()
    present,    \* history: the keys inserted and not removed since
    op,         \* the last public operation: "none", "insert", "remove"
    ret,        \* the boolean the last public operation returned
    client,     \* the kind of client driving the tree
    strayed,    \* the deque client made its operation away from the ends
    bench,      \* a node primitive applied to a node of the tree, with its result
    db_slice,   \* DbSlice of the shard: key -> [str, expire] or NoEntry
    now,        \* DbSlice::Now(), in milliseconds
    reply,      \* the replies the last command sent to its connection, in order
    call        \* the last command and the SetCmd::Set call it made

vars == <<kKeySize, root, count_, present, op, ret, client, strayed, bench,
          db_slice, now, reply, call>>

\* the state of the tree and of its clients
tree == <<kKeySize, root, count_, present, op, ret, client, strayed, bench>>

\* the state of the string commands
server == <<db_slice, now, reply, call>>

----------------------------------------------------------------------------
(* Bounds of the model *)

\* a client of kind "any" inserts and removes the keys 1..MaxKey in any order
MaxKey == 9

\* a client of kind "deque" uses the keys 1..MaxDeep: it inserts an even key
\* two below the smallest or two above the largest key of the tree and
\* removes the smallest or the largest key; while the tree holds no key
\* above MaxStray it may end its run by one operation on any key up to
\* MaxStray
MaxDeep == 60

MaxStray == 32

\* a client of kind "stack" inserts 1, 2, ... up to MaxFill, each key one
\* above the size of the tree, and removes the largest key
MaxFill == 32

\* a client of kind "bench" inserts and removes the keys 1..MaxBenchKey in
\* any order and ends its run by applying one node primitive to a node
MaxBenchKey == 9

\* a client of kind "prim" inserts and removes like the deque client, at
\* the ends only, with the keys 1..MaxPrimKey, and ends its run by applying
\* one node primitive to a node
MaxPrimKey == 40

Keys ==
    CASE client = "any" -> 1 .. MaxKey
      [] client = "prim" -> 1 .. MaxPrimKey
      [] client = "deque" -> 1 .. MaxDeep
      [] client = "stack" -> 1 .. MaxFill
      [] client = "bench" -> 1 .. MaxBenchKey

----------------
(* Node layout *)

kBPNodeSize == 256

kKeyOffset == 8

kPtrSize == 8

kMaxLeafKeys == (kBPNodeSize - kKeyOffset) \div kKeySize

kMinLeafKeys == kMaxLeafKeys \div 2

kMaxInnerKeys == (kBPNodeSize - kPtrSize - kKeyOffset) \div (kKeySize + kPtrSize)

kMinInnerKeys == kMaxInnerKeys \div 2

----------------------------------------------------------------------------
(* Nodes *)

\* a null BPTreeNode*
NullNode == [null |-> TRUE]

IsNull(n) == "null" \in DOMAIN n

\* BPTreeNode(bool leaf): num_items_ = 0
NewNode(leaf) == [leaf |-> leaf, keys |-> <<>>, children |-> <<>>]

IsLeaf(n) == n.leaf

NumItems(n) == Len(n.keys)

MaxItems(n) == IF IsLeaf(n) THEN kMaxLeafKeys ELSE kMaxInnerKeys

MinItems(n) == IF IsLeaf(n) THEN kMinLeafKeys ELSE kMinInnerKeys

AvailableSlotCount(n) == MaxItems(n) - NumItems(n)

Key(n, i) == n.keys[i + 1]

Child(n, i) == n.children[i + 1]

SetKey(n, i, item) == [n EXCEPT !.keys[i + 1] = item]

SetChild(n, i, c) == [n EXCEPT !.children[i + 1] = c]

\* the slots [from, to) of a 0-based array held in a sequence
Slots(s, from, to) == SubSeq(s, from + 1, to)

\* the comparator of the tree's policy: negative, zero or positive
KeyCompare(a, b) == IF a < b THEN -1 ELSE IF a > b THEN 1 ELSE 0

\* InitSingle: a node holding one key
InitSingle(n, key) == [n EXCEPT !.keys = <<key>>]

----------------------------------------------------------------------------
(* BPTreePath *)

kMaxDepth == 16

\* A path is its records [node, pos], bottom first, depth_ being their
\* number; overflow says that Push was called on a path of kMaxDepth records.
EmptyPath == [record_ |-> <<>>, overflow |-> FALSE]

Depth(path) == Len(path.record_)

Push(path, node, pos) ==
    [record_ |-> path.record_ \o <<[node |-> node, pos |-> pos]>>,
     overflow |-> path.overflow \/ Depth(path) >= kMaxDepth]

RECURSIVE DigRightTakesFirstChild(_, _)
\* the loop of DigRight taking child 0
DigRightTakesFirstChild(path, last) ==
    LET child == Child(last, 0)
        path1 == Push(path, child, 0)
    IN  IF IsLeaf(child) THEN path1 ELSE DigRightTakesFirstChild(path1, child)

RECURSIVE DigRightLoop(_, _)
\* the do-while loop of DigRight, last being the node pushed last
DigRightLoop(path, last) ==
    LET pos == NumItems(last)
        child == Child(last, pos)
        path1 == Push(path, child, pos)
    IN  IF IsLeaf(child) THEN path1 ELSE DigRightLoop(path1, child)

DigRight(path) == DigRightLoop(path, path.record_[Depth(path)].node)

----------------------------------------------------------------------------
(* BSearch *)

RECURSIVE BSearchLoopSkipsEqual(_, _, _, _)
\* BSearchLoop without the cmp_res == 0 exit: an equal key is stepped over
BSearchLoopSkipsEqual(n, key, lo, hi) ==
    IF lo < hi
    THEN LET mid == (lo + hi) \div 2
             cmp_res == KeyCompare(key, Key(n, mid))
         IN  IF cmp_res < 0
             THEN BSearchLoopSkipsEqual(n, key, lo, mid)
             ELSE BSearchLoopSkipsEqual(n, key, mid + 1, hi)
    ELSE [index |-> hi, found |-> FALSE]

RECURSIVE BSearchLoopFoundAtLo(_, _, _, _)
\* BSearchLoop reporting lo instead of mid when the key is found
BSearchLoopFoundAtLo(n, key, lo, hi) ==
    IF lo < hi
    THEN LET mid == (lo + hi) \div 2
             cmp_res == KeyCompare(key, Key(n, mid))
         IN  IF cmp_res = 0
             THEN [index |-> lo, found |-> TRUE]
             ELSE IF cmp_res < 0
                  THEN BSearchLoopFoundAtLo(n, key, lo, mid)
                  ELSE BSearchLoopFoundAtLo(n, key, mid + 1, hi)
    ELSE [index |-> hi, found |-> FALSE]

RECURSIVE BSearchLoop(_, _, _, _)
BSearchLoop(n, key, lo, hi) ==
    IF lo < hi
    THEN LET mid == (lo + hi) \div 2
             cmp_res == KeyCompare(key, Key(n, mid))
         IN  IF cmp_res = 0
             THEN [index |-> mid, found |-> TRUE]
             ELSE IF cmp_res < 0
                  THEN BSearchLoop(n, key, lo, mid)
                  ELSE BSearchLoop(n, key, mid + 1, hi)
    ELSE [index |-> hi, found |-> FALSE]

BSearch(n, key) == BSearchLoop(n, key, 0, NumItems(n))

----------------------------------------------------------------------------
(* ShiftRight, ShiftLeft, InsertItem *)

\* A slot the operation leaves unwritten and that lies beyond the old
\* num_items_ holds memory the model does not track.
StaleKey == 0

\* ShiftRight(index): keys [index, count) move one slot up, children
\* [index, count] too; slot index keeps its old content; with nothing to
\* shift only num_items_ grows.
ShiftRight(n, index) ==
    LET cnt == NumItems(n)
        num_items_to_shift == cnt - index
    IN  IF num_items_to_shift > 0
        THEN [n EXCEPT
                !.keys = Slots(n.keys, 0, index + 1) \o Slots(n.keys, index, cnt),
                !.children = IF IsLeaf(n) THEN n.children
                             ELSE Slots(n.children, 0, index + 1)
                                  \o Slots(n.children, index, cnt + 1)]
        ELSE [n EXCEPT
                !.keys = n.keys \o <<StaleKey>>,
                !.children = IF IsLeaf(n) THEN n.children
                             ELSE n.children \o <<NullNode>>]

\* ShiftLeft moving the keys from index + 2 on: key index + 1 is lost
\* instead of key index
ShiftLeftFromNext(n, index, child_step_right) ==
    LET cnt == NumItems(n)
        num_items_to_shift == cnt - index - 1
        cidx == index + (IF child_step_right THEN 1 ELSE 0)
    IN  IF num_items_to_shift > 0
        THEN [n EXCEPT
                !.keys = Slots(n.keys, 0, index + 1) \o Slots(n.keys, index + 2, cnt),
                !.children = IF IsLeaf(n) THEN n.children
                             ELSE Slots(n.children, 0, cidx)
                                  \o Slots(n.children, cidx + 1, cnt + 1)]
        ELSE [n EXCEPT
                !.keys = Slots(n.keys, 0, cnt - 1),
                !.children = IF IsLeaf(n) THEN n.children
                             ELSE Slots(n.children, 0, cnt)]

\* ShiftLeft(index, child_step_right): the children move only when some key
\* moves, that is when index < count - 1.
ShiftLeft(n, index, child_step_right) ==
    LET cnt == NumItems(n)
        num_items_to_shift == cnt - index - 1
        cidx == index + (IF child_step_right THEN 1 ELSE 0)
    IN  IF num_items_to_shift > 0
        THEN [n EXCEPT
                !.keys = Slots(n.keys, 0, index) \o Slots(n.keys, index + 1, cnt),
                !.children = IF IsLeaf(n) THEN n.children
                             ELSE Slots(n.children, 0, cidx)
                                  \o Slots(n.children, cidx + 1, cnt + 1)]
        ELSE [n EXCEPT
                !.keys = Slots(n.keys, 0, cnt - 1),
                !.children = IF IsLeaf(n) THEN n.children
                             ELSE Slots(n.children, 0, cnt)]

LeafEraseRight(n) == [n EXCEPT !.keys = Slots(n.keys, 0, NumItems(n) - 1)]

\* InsertItem that shifts and leaves slot index as it is
InsertItemKeepsSlot(n, index, item) == ShiftRight(n, index)

InsertItem(n, index, item) == SetKey(ShiftRight(n, index), index, item)

LeafInsert(n, index, item) == InsertItem(n, index, item)

InnerInsert(n, index, item, child) ==
    SetChild(InsertItem(n, index, item), index + 1, child)

----------------------------------------------------------------------------
(* Split, MergeFromRight *)

\* Split that marks the right node a leaf whatever the node is
SplitRightIsLeaf(n) ==
    LET cnt == NumItems(n)
        mid == cnt \div 2
        rcnt == cnt - (mid + 1)
    IN  [median |-> Key(n, mid),
         right  |-> [leaf |-> TRUE,
                     keys |-> Slots(n.keys, mid + 1, mid + 1 + rcnt),
                     children |-> <<>>],
         left   |-> [n EXCEPT
                       !.keys = Slots(n.keys, 0, mid),
                       !.children = IF IsLeaf(n) THEN <<>>
                                    ELSE Slots(n.children, 0, mid + 1)]]

\* Split that copies the right half from slot mid: the median is duplicated
SplitCopiesMedian(n) ==
    LET cnt == NumItems(n)
        mid == cnt \div 2
    IN  [median |-> Key(n, mid),
         right  |-> [leaf |-> n.leaf,
                     keys |-> Slots(n.keys, mid, cnt),
                     children |-> IF IsLeaf(n) THEN <<>>
                                  ELSE Slots(n.children, mid, cnt + 1)],
         left   |-> [n EXCEPT
                       !.keys = Slots(n.keys, 0, mid),
                       !.children = IF IsLeaf(n) THEN <<>>
                                    ELSE Slots(n.children, 0, mid + 1)]]

\* Split around the upper median, mid = (count + 1) / 2
SplitUpperMedian(n) ==
    LET cnt == NumItems(n)
        mid == (cnt + 1) \div 2
        rcnt == cnt - (mid + 1)
    IN  [median |-> Key(n, mid),
         right  |-> [leaf |-> n.leaf,
                     keys |-> Slots(n.keys, mid + 1, mid + 1 + rcnt),
                     children |-> IF IsLeaf(n) THEN <<>>
                                  ELSE Slots(n.children, mid + 1, mid + 1 + rcnt + 1)],
         left   |-> [n EXCEPT
                       !.keys = Slots(n.keys, 0, mid),
                       !.children = IF IsLeaf(n) THEN <<>>
                                    ELSE Slots(n.children, 0, mid + 1)]]

\* Split(right, median): the node keeps slots [0, mid), *median is slot mid,
\* right receives keys [mid + 1, count) and children [mid + 1, count].
Split(n) ==
    LET cnt == NumItems(n)
        mid == cnt \div 2
        rcnt == cnt - (mid + 1)
    IN  [median |-> Key(n, mid),
         right  |-> [leaf |-> n.leaf,
                     keys |-> Slots(n.keys, mid + 1, mid + 1 + rcnt),
                     children |-> IF IsLeaf(n) THEN <<>>
                                  ELSE Slots(n.children, mid + 1, mid + 1 + rcnt + 1)],
         left   |-> [n EXCEPT
                       !.keys = Slots(n.keys, 0, mid),
                       !.children = IF IsLeaf(n) THEN <<>>
                                    ELSE Slots(n.children, 0, mid + 1)]]

\* MergeFromRight that appends right's keys without the separator
MergeFromRightDropsKey(n, key, right) ==
    [node  |-> [n EXCEPT
                  !.keys = n.keys \o right.keys,
                  !.children = IF IsLeaf(n) THEN n.children
                               ELSE n.children \o Slots(right.children, 0, NumItems(right) + 1)],
     right |-> [right EXCEPT
                  !.keys = <<>>,
                  !.children = IF IsLeaf(right) THEN right.children
                               ELSE Slots(right.children, 0, 1)]]

\* MergeFromRight(key, right): the node and the emptied right node.
MergeFromRight(n, key, right) ==
    [node  |-> [n EXCEPT
                  !.keys = n.keys \o <<key>> \o right.keys,
                  !.children = IF IsLeaf(n) THEN n.children
                               ELSE n.children \o Slots(right.children, 0, NumItems(right) + 1)],
     right |-> [right EXCEPT
                  !.keys = <<>>,
                  !.children = IF IsLeaf(right) THEN right.children
                               ELSE Slots(right.children, 0, 1)]]

----------------------------------------------------------------------------
(* RebalanceChildToLeft, RebalanceChildToRight: the parent afterwards *)

\* RebalanceChildToLeft that promotes src->Key(count) instead of
\* src->Key(count - 1) and so keeps the promoted key in the source too
RebalanceChildToLeftLateDelim(p, child_pos, count) ==
    LET src == Child(p, child_pos)
        dest == Child(p, child_pos - 1)
        src_items == NumItems(src)
        dest1 == [dest EXCEPT
                    !.keys = dest.keys \o <<Key(p, child_pos - 1)>>
                             \o Slots(src.keys, 0, count - 1),
                    !.children = IF IsLeaf(src) THEN dest.children
                                 ELSE dest.children \o Slots(src.children, 0, count)]
        src1 == [src EXCEPT
                    !.keys = Slots(src.keys, count, src_items),
                    !.children = IF IsLeaf(src) THEN src.children
                                 ELSE Slots(src.children, count, src_items + 1)]
        p1 == SetKey(p, child_pos - 1, Key(src, count))
    IN  SetChild(SetChild(p1, child_pos - 1, dest1), child_pos, src1)

\* RebalanceChildToLeft that leaves the parent's delimiter as it was
RebalanceChildToLeftOldDelim(p, child_pos, count) ==
    LET src == Child(p, child_pos)
        dest == Child(p, child_pos - 1)
        src_items == NumItems(src)
        dest1 == [dest EXCEPT
                    !.keys = dest.keys \o <<Key(p, child_pos - 1)>>
                             \o Slots(src.keys, 0, count - 1),
                    !.children = IF IsLeaf(src) THEN dest.children
                                 ELSE dest.children \o Slots(src.children, 0, count)]
        src1 == [src EXCEPT
                    !.keys = Slots(src.keys, count, src_items),
                    !.children = IF IsLeaf(src) THEN src.children
                                 ELSE Slots(src.children, count, src_items + 1)]
    IN  SetChild(SetChild(p, child_pos - 1, dest1), child_pos, src1)

RebalanceChildToLeft(p, child_pos, count) ==
    LET src == Child(p, child_pos)
        dest == Child(p, child_pos - 1)
        src_items == NumItems(src)
        dest1 == [dest EXCEPT
                    !.keys = dest.keys \o <<Key(p, child_pos - 1)>>
                             \o Slots(src.keys, 0, count - 1),
                    !.children = IF IsLeaf(src) THEN dest.children
                                 ELSE dest.children \o Slots(src.children, 0, count)]
        src1 == [src EXCEPT
                    !.keys = Slots(src.keys, count, src_items),
                    !.children = IF IsLeaf(src) THEN src.children
                                 ELSE Slots(src.children, count, src_items + 1)]
        p1 == SetKey(p, child_pos - 1, Key(src, count - 1))
    IN  SetChild(SetChild(p1, child_pos - 1, dest1), child_pos, src1)

\* RebalanceChildToRight that leaves the parent's delimiter as it was
RebalanceChildToRightOldDelim(p, child_pos, count) ==
    LET src == Child(p, child_pos)
        dest == Child(p, child_pos + 1)
        src_items == NumItems(src)
        dest1 == [dest EXCEPT
                    !.keys = Slots(src.keys, src_items - count + 1, src_items)
                             \o <<Key(p, child_pos)>> \o dest.keys,
                    !.children = IF IsLeaf(src) THEN dest.children
                                 ELSE Slots(src.children, src_items - count + 1, src_items + 1)
                                      \o dest.children]
        src1 == [src EXCEPT
                    !.keys = Slots(src.keys, 0, src_items - count),
                    !.children = IF IsLeaf(src) THEN src.children
                                 ELSE Slots(src.children, 0, src_items - count + 1)]
    IN  SetChild(SetChild(p, child_pos, src1), child_pos + 1, dest1)

RebalanceChildToRight(p, child_pos, count) ==
    LET src == Child(p, child_pos)
        dest == Child(p, child_pos + 1)
        src_items == NumItems(src)
        new_delim == Key(src, src_items - count)
        dest1 == [dest EXCEPT
                    !.keys = Slots(src.keys, src_items - count + 1, src_items)
                             \o <<Key(p, child_pos)>> \o dest.keys,
                    !.children = IF IsLeaf(src) THEN dest.children
                                 ELSE Slots(src.children, src_items - count + 1, src_items + 1)
                                      \o dest.children]
        src1 == [src EXCEPT
                    !.keys = Slots(src.keys, 0, src_items - count),
                    !.children = IF IsLeaf(src) THEN src.children
                                 ELSE Slots(src.children, 0, src_items - count + 1)]
        p1 == SetKey(p, child_pos, new_delim)
    IN  SetChild(SetChild(p1, child_pos, src1), child_pos + 1, dest1)

----------------------------------------------------------------------------
(* RebalanceChild: relieve a full child before an insert *)

\* The result names the returned node by its index among the parent's
\* children; ok = FALSE stands for {nullptr, 0}.
RebalanceFail(p) == [ok |-> FALSE, parent |-> p, child |-> 0, insert_pos |-> 0]

\* the right sibling part of RebalanceChild without the bias for
\* insert_pos == 0: it always moves half of the free slots
RebalanceChildRightNoBias(p, pos, insert_pos) ==
    LET node == Child(p, pos) IN
    IF pos < NumItems(p)
    THEN LET right == Child(p, pos + 1)
             dest_free == AvailableSlotCount(right)
             to_move == IF dest_free > 1 THEN dest_free \div 2 ELSE 0
         IN  IF to_move > 0
             THEN LET p1 == RebalanceChildToRight(p, pos, to_move)
                      node_items == NumItems(Child(p1, pos))
                  IN  IF insert_pos > node_items
                      THEN [ok |-> TRUE, parent |-> p1, child |-> pos + 1,
                            insert_pos |-> insert_pos - (node_items + 1)]
                      ELSE [ok |-> TRUE, parent |-> p1, child |-> pos,
                            insert_pos |-> insert_pos]
             ELSE RebalanceFail(p)
    ELSE RebalanceFail(p)

RebalanceChildRight(p, pos, insert_pos) ==
    LET node == Child(p, pos) IN
    IF pos < NumItems(p)
    THEN LET right == Child(p, pos + 1)
             dest_free == AvailableSlotCount(right)
             to_move == IF dest_free > 0
                        THEN IF insert_pos = 0 THEN dest_free
                             ELSE IF dest_free > 1 THEN dest_free \div 2 ELSE 0
                        ELSE 0
         IN  IF to_move > 0
             THEN LET p1 == RebalanceChildToRight(p, pos, to_move)
                      node_items == NumItems(Child(p1, pos))
                  IN  IF insert_pos > node_items
                      THEN [ok |-> TRUE, parent |-> p1, child |-> pos + 1,
                            insert_pos |-> insert_pos - (node_items + 1)]
                      ELSE [ok |-> TRUE, parent |-> p1, child |-> pos,
                            insert_pos |-> insert_pos]
             ELSE RebalanceFail(p)
    ELSE RebalanceFail(p)

\* RebalanceChild that redirects the insert to the left sibling without the
\* + 1 for the separator that moved down
RebalanceChildNoSeparatorStep(p, pos, insert_pos) ==
    LET node == Child(p, pos) IN
    IF pos > 0
    THEN LET left == Child(p, pos - 1)
             dest_free == AvailableSlotCount(left)
             to_move == IF dest_free > 0
                        THEN IF insert_pos = NumItems(node) THEN dest_free
                             ELSE IF dest_free > 1 THEN dest_free \div 2 ELSE 0
                        ELSE 0
         IN  IF to_move > 0
             THEN LET dest_old_count == NumItems(left)
                      p1 == RebalanceChildToLeft(p, pos, to_move)
                  IN  IF insert_pos < to_move
                      THEN [ok |-> TRUE, parent |-> p1, child |-> pos - 1,
                            insert_pos |-> dest_old_count + insert_pos]
                      ELSE [ok |-> TRUE, parent |-> p1, child |-> pos,
                            insert_pos |-> insert_pos - to_move]
             ELSE RebalanceChildRight(p, pos, insert_pos)
    ELSE RebalanceChildRight(p, pos, insert_pos)

RebalanceChild(p, pos, insert_pos) ==
    LET node == Child(p, pos) IN
    IF pos > 0
    THEN LET left == Child(p, pos - 1)
             dest_free == AvailableSlotCount(left)
             to_move == IF dest_free > 0
                        THEN IF insert_pos = NumItems(node) THEN dest_free
                             ELSE IF dest_free > 1 THEN dest_free \div 2 ELSE 0
                        ELSE 0
         IN  IF to_move > 0
             THEN LET dest_old_count == NumItems(left)
                      p1 == RebalanceChildToLeft(p, pos, to_move)
                  IN  IF insert_pos < to_move
                      THEN [ok |-> TRUE, parent |-> p1, child |-> pos - 1,
                            insert_pos |-> dest_old_count + insert_pos + 1]
                      ELSE [ok |-> TRUE, parent |-> p1, child |-> pos,
                            insert_pos |-> insert_pos - to_move]
             ELSE RebalanceChildRight(p, pos, insert_pos)
    ELSE RebalanceChildRight(p, pos, insert_pos)

----------------------------------------------------------------------------
(* MergeOrRebalanceChild: repair a child that fell below MinItems *)

\* retired is the node returned (NullNode for nullptr)
MergeOrRebalanceRight(p, pos) ==
    LET node == Child(p, pos) IN
    IF pos < NumItems(p)
    THEN LET right == Child(p, pos + 1) IN
         IF NumItems(node) + 1 + NumItems(right) <= MaxItems(right)
         THEN LET m == MergeFromRight(node, Key(p, pos), right)
                  p1 == SetChild(SetChild(p, pos, m.node), pos + 1, m.right)
              IN  [parent |-> ShiftLeft(p1, pos, TRUE), retired |-> m.right]
         ELSE LET to_move == (NumItems(right) - NumItems(node)) \div 2
              IN  [parent |-> RebalanceChildToLeft(p, pos + 1, to_move),
                   retired |-> NullNode]
    ELSE IF pos > 0
         THEN LET left == Child(p, pos - 1)
                  to_move == (NumItems(left) - NumItems(node)) \div 2
              IN  [parent |-> RebalanceChildToRight(p, pos - 1, to_move),
                   retired |-> NullNode]
         ELSE [parent |-> p, retired |-> NullNode]

\* MergeOrRebalanceChild that returns nullptr after a merge too
MergeOrRebalanceChildReturnsNull(p, pos) ==
    LET node == Child(p, pos) IN
    IF pos > 0
    THEN LET left == Child(p, pos - 1) IN
         IF NumItems(left) + 1 + NumItems(node) <= MaxItems(left)
         THEN LET m == MergeFromRight(left, Key(p, pos - 1), node)
                  p1 == SetChild(SetChild(p, pos - 1, m.node), pos, m.right)
              IN  [parent |-> ShiftLeft(p1, pos - 1, TRUE), retired |-> NullNode]
         ELSE MergeOrRebalanceRight(p, pos)
    ELSE MergeOrRebalanceRight(p, pos)

\* MergeOrRebalanceChild that merges into the left sibling without counting
\* the slot of the separator
MergeOrRebalanceChildNoSeparatorSlot(p, pos) ==
    LET node == Child(p, pos) IN
    IF pos > 0
    THEN LET left == Child(p, pos - 1) IN
         IF NumItems(left) + NumItems(node) <= MaxItems(left)
         THEN LET m == MergeFromRight(left, Key(p, pos - 1), node)
                  p1 == SetChild(SetChild(p, pos - 1, m.node), pos, m.right)
              IN  [parent |-> ShiftLeft(p1, pos - 1, TRUE), retired |-> m.right]
         ELSE MergeOrRebalanceRight(p, pos)
    ELSE MergeOrRebalanceRight(p, pos)

\* MergeOrRebalanceChild that tries the right sibling before the left one
MergeOrRebalanceChildRightFirst(p, pos) ==
    LET node == Child(p, pos)
        fitsRight == pos < NumItems(p)
                     /\ NumItems(node) + 1 + NumItems(Child(p, pos + 1))
                            <= MaxItems(Child(p, pos + 1))
    IN  IF ~fitsRight /\ pos > 0
              /\ NumItems(Child(p, pos - 1)) + 1 + NumItems(node)
                     <= MaxItems(Child(p, pos - 1))
        THEN LET m == MergeFromRight(Child(p, pos - 1), Key(p, pos - 1), node)
                 p1 == SetChild(SetChild(p, pos - 1, m.node), pos, m.right)
             IN  [parent |-> ShiftLeft(p1, pos - 1, TRUE), retired |-> m.right]
        ELSE MergeOrRebalanceRight(p, pos)

MergeOrRebalanceChild(p, pos) ==
    LET node == Child(p, pos) IN
    IF pos > 0
    THEN LET left == Child(p, pos - 1) IN
         IF NumItems(left) + 1 + NumItems(node) <= MaxItems(left)
         THEN LET m == MergeFromRight(left, Key(p, pos - 1), node)
                  p1 == SetChild(SetChild(p, pos - 1, m.node), pos, m.right)
              IN  [parent |-> ShiftLeft(p1, pos - 1, TRUE), retired |-> m.right]
         ELSE MergeOrRebalanceRight(p, pos)
    ELSE MergeOrRebalanceRight(p, pos)

\* the asserts at the head of RebalanceChildToLeft
RebalanceChildToLeftAsserts(p, child_pos, count) ==
    /\ child_pos > 0
    /\ NumItems(Child(p, child_pos)) >= count
    /\ count >= 1
    /\ AvailableSlotCount(Child(p, child_pos - 1)) >= count

\* the asserts at the head of RebalanceChildToRight
RebalanceChildToRightAsserts(p, child_pos, count) ==
    /\ child_pos < NumItems(p)
    /\ NumItems(Child(p, child_pos)) >= count
    /\ count >= 1
    /\ AvailableSlotCount(Child(p, child_pos + 1)) >= count
    /\ NumItems(Child(p, child_pos + 1)) > 0

\* Whether every assert that MergeOrRebalanceChild(pos) meets holds, its own
\* and those of the primitive it calls
MergeOrRebalanceChildAsserts(p, pos) ==
    LET node == Child(p, pos)
        fitsLeft == IF pos > 0
                    THEN NumItems(Child(p, pos - 1)) + 1 + NumItems(node)
                             <= MaxItems(Child(p, pos - 1))
                    ELSE FALSE
    IN  /\ NumItems(p) >= 1
        /\ NumItems(node) < MinItems(node)
        /\ IF fitsLeft
           THEN TRUE
           ELSE IF pos < NumItems(p)
                THEN LET right == Child(p, pos + 1)
                         to_move == (NumItems(right) - NumItems(node)) \div 2
                     IN  IF NumItems(node) + 1 + NumItems(right) <= MaxItems(right)
                         THEN TRUE
                         ELSE /\ to_move < NumItems(right)
                              /\ RebalanceChildToLeftAsserts(p, pos + 1, to_move)
                ELSE /\ pos > 0
                     /\ LET left == Child(p, pos - 1)
                            to_move == (NumItems(left) - NumItems(node)) \div 2
                        IN  /\ to_move < NumItems(left)
                            /\ RebalanceChildToRightAsserts(p, pos - 1, to_move)

----------------------------------------------------------------------------
(* The tree: locating a key *)

\* A position path ps leads from the root to a node: ps[i] is the index of
\* the child taken at depth i.
RECURSIVE NodeAt(_, _)
NodeAt(r, ps) == IF ps = <<>> THEN r ELSE NodeAt(Child(r, Head(ps)), Tail(ps))

RECURSIVE ReplaceAt(_, _, _)
ReplaceAt(r, ps, new) ==
    IF ps = <<>> THEN new
    ELSE SetChild(r, Head(ps), ReplaceAt(Child(r, Head(ps)), Tail(ps), new))

Front(ps) == SubSeq(ps, 1, Len(ps) - 1)

Last(ps) == ps[Len(ps)]

\* Descend from node n, binary-searching each node; path holds the search
\* index of every node visited, the last one being the index in the node
\* where the descent stopped (the key's slot when found).
RECURSIVE Locate(_, _)
Locate(n, key) ==
    LET res == BSearch(n, key) IN
    IF res.found \/ IsLeaf(n)
    THEN [found |-> res.found, path |-> <<res.index>>]
    ELSE LET sub == Locate(Child(n, res.index), key)
         IN  [found |-> sub.found, path |-> <<res.index>> \o sub.path]

----------------------------------------------------------------------------
(* The tree: insertion *)

\* The node at prefix was split: it holds the left half, and (median, right)
\* must go into its parent, which is rebalanced or split when full; a split
\* of the root makes a new root.
RECURSIVE InsertUp(_, _, _, _)
InsertUp(r, prefix, median, right) ==
    IF prefix = <<>>
    THEN [InitSingle(NewNode(FALSE), median) EXCEPT !.children = <<r, right>>]
    ELSE LET ppath == Front(prefix)
             pos == Last(prefix)
             node == NodeAt(r, ppath)
         IN  IF NumItems(node) = kMaxInnerKeys
             THEN LET gpath == Front(ppath)
                      reb == IF ppath # <<>>
                             THEN RebalanceChild(NodeAt(r, gpath), Last(ppath), pos)
                             ELSE RebalanceFail(node)
                  IN  IF reb.ok
                      THEN ReplaceAt(r, gpath,
                               SetChild(reb.parent, reb.child,
                                   InnerInsert(Child(reb.parent, reb.child),
                                               reb.insert_pos, median, right)))
                      ELSE LET s == Split(node)
                               lcnt == NumItems(s.left)
                               left1 == IF pos <= lcnt
                                        THEN InnerInsert(s.left, pos, median, right)
                                        ELSE s.left
                               right1 == IF pos <= lcnt
                                         THEN s.right
                                         ELSE InnerInsert(s.right, pos - lcnt - 1,
                                                          median, right)
                           IN  InsertUp(ReplaceAt(r, ppath, left1), ppath,
                                        s.median, right1)
             ELSE ReplaceAt(r, ppath, InnerInsert(node, pos, median, right))

\* The leaf at prefix is full: relieve it through its parent, else split it.
InsertFullLeaf(r, prefix, insert_pos, item) ==
    LET node == NodeAt(r, prefix)
        ppath == Front(prefix)
        reb == IF prefix # <<>>
               THEN RebalanceChild(NodeAt(r, ppath), Last(prefix), insert_pos)
               ELSE RebalanceFail(node)
    IN  IF reb.ok
        THEN ReplaceAt(r, ppath,
                 SetChild(reb.parent, reb.child,
                     LeafInsert(Child(reb.parent, reb.child), reb.insert_pos, item)))
        ELSE LET s == Split(node)
                 lcnt == NumItems(s.left)
                 left1 == IF insert_pos <= lcnt
                          THEN LeafInsert(s.left, insert_pos, item)
                          ELSE s.left
                 right1 == IF insert_pos <= lcnt
                           THEN s.right
                           ELSE LeafInsert(s.right, insert_pos - lcnt - 1, item)
             IN  InsertUp(ReplaceAt(r, prefix, left1), prefix, s.median, right1)

\* insert(key): the new root and the returned boolean
TreeInsert(r, key) ==
    IF IsNull(r)
    THEN [root |-> InitSingle(NewNode(TRUE), key), ret |-> TRUE]
    ELSE LET loc == Locate(r, key)
             prefix == Front(loc.path)
             insert_pos == Last(loc.path)
             leaf == NodeAt(r, prefix)
         IN  IF loc.found
             THEN [root |-> r, ret |-> FALSE]
             ELSE IF NumItems(leaf) = kMaxLeafKeys
                  THEN [root |-> InsertFullLeaf(r, prefix, insert_pos, key),
                        ret |-> TRUE]
                  ELSE [root |-> ReplaceAt(r, prefix, LeafInsert(leaf, insert_pos, key)),
                        ret |-> TRUE]

----------------------------------------------------------------------------
(* The tree: deletion *)

\* the positions from n down to its rightmost leaf
RECURSIVE RightmostLeafPath(_)
RightmostLeafPath(n) ==
    IF IsLeaf(n) THEN <<>>
    ELSE <<NumItems(n)>> \o RightmostLeafPath(Child(n, NumItems(n)))

\* Walk back up from the node at path while it is below MinItems.
RECURSIVE Repair(_, _)
Repair(r, path) ==
    LET node == NodeAt(r, path) IN
    IF NumItems(node) >= MinItems(node)
    THEN r
    ELSE IF path = <<>>
         THEN IF NumItems(node) = 0 /\ ~IsLeaf(node) THEN Child(node, 0) ELSE r
         ELSE LET m == MergeOrRebalanceChild(NodeAt(r, Front(path)), Last(path))
                  r1 == ReplaceAt(r, Front(path), m.parent)
              IN  IF IsNull(m.retired) THEN r1 ELSE Repair(r1, Front(path))

\* remove(key): the new root and the returned boolean
TreeDelete(r, key) ==
    IF IsNull(r)
    THEN [root |-> r, ret |-> FALSE]
    ELSE LET loc == Locate(r, key)
             prefix == Front(loc.path)
             key_pos == Last(loc.path)
             node == NodeAt(r, prefix)
         IN  IF ~loc.found
             THEN [root |-> r, ret |-> FALSE]
             ELSE IF IsLeaf(node)
                  THEN [root |-> Repair(ReplaceAt(r, prefix,
                                            ShiftLeft(node, key_pos, FALSE)), prefix),
                        ret |-> TRUE]
                  ELSE LET lpath == prefix \o <<key_pos>>
                                    \o RightmostLeafPath(Child(node, key_pos))
                           leaf == NodeAt(r, lpath)
                           pred == Key(leaf, NumItems(leaf) - 1)
                           r1 == ReplaceAt(r, prefix, SetKey(node, key_pos, pred))
                           r2 == ReplaceAt(r1, lpath, LeafEraseRight(leaf))
                       IN  [root |-> Repair(r2, lpath), ret |-> TRUE]

\* The calls of MergeOrRebalanceChild that Repair(r, path) makes, first to
\* last: the parent as it is when called, the position and the result.
RECURSIVE RepairCalls(_, _)
RepairCalls(r, path) ==
    LET node == NodeAt(r, path) IN
    IF NumItems(node) >= MinItems(node) \/ path = <<>>
    THEN <<>>
    ELSE LET p == NodeAt(r, Front(path))
             m == MergeOrRebalanceChild(p, Last(path))
             r1 == ReplaceAt(r, Front(path), m.parent)
         IN  <<[parent |-> p, pos |-> Last(path), res |-> m]>>
             \o (IF IsNull(m.retired) THEN <<>> ELSE RepairCalls(r1, Front(path)))

\* the calls of MergeOrRebalanceChild that remove(key) makes
DeleteCalls(r, key) ==
    IF IsNull(r)
    THEN <<>>
    ELSE LET loc == Locate(r, key)
             prefix == Front(loc.path)
             key_pos == Last(loc.path)
             node == NodeAt(r, prefix)
         IN  IF ~loc.found
             THEN <<>>
             ELSE IF IsLeaf(node)
                  THEN RepairCalls(ReplaceAt(r, prefix,
                                       ShiftLeft(node, key_pos, FALSE)), prefix)
                  ELSE LET lpath == prefix \o <<key_pos>>
                                    \o RightmostLeafPath(Child(node, key_pos))
                           leaf == NodeAt(r, lpath)
                           pred == Key(leaf, NumItems(leaf) - 1)
                           r1 == ReplaceAt(r, prefix, SetKey(node, key_pos, pred))
                           r2 == ReplaceAt(r1, lpath, LeafEraseRight(leaf))
                       IN  RepairCalls(r2, lpath)

----------------------------------------------------------------------------
(* String commands: SetCmd::Set, StringFamily::Set, StringFamily::GetSet *)

\* options of a SET command explored
MaxOpts == 2

\* DbSlice::Now() of the explored runs
StartMs == 1000

kMaxExpireSec == 500000000

kMsPerSec == 1000

StrKeys == {"k1", "k2"}

StrValues == {"v1", "v2"}

\* the words an option list is made of
Tokens == {"EX", "PX", "NX", "XX", "KEEPTTL", "px", "10", "0", "abc"}

\* What the read of args[args.size()] may yield: the bytes found there read
\* as a number or as some other word, or a fault that ends the process
Crashed == "SIGSEGV"

BeyondArgs == {"10", "abc", Crashed}

\* end iterator of the DbSlice tables
NoEntry == [none |-> TRUE]

HasEntry(e) == "str" \in DOMAIN e

\* std::optional<string> without a value
nullopt == "nullopt"

kSyntaxErr == [type |-> "error", msg |-> "kSyntaxErr"]

kInvalidIntErr == [type |-> "error", msg |-> "kInvalidIntErr"]

kInvalidExpireErr == [type |-> "error", msg |-> "invalid expire time in set"]

Stored == [type |-> "stored"]

Null == [type |-> "null"]

GetReply(val) == [type |-> "get", val |-> val]

StatusError(status) == [type |-> "error", msg |-> status]

\* args[i], args[0] being the command name
ArgS(args, i) == args[i + 1]

ToUpper(word) ==
    CASE word = "px" -> "PX"
      [] OTHER -> word

\* absl::SimpleAtoi on the words explored
SimpleAtoi(word) ==
    CASE word = "10" -> [ok |-> TRUE, val |-> 10]
      [] word = "0" -> [ok |-> TRUE, val |-> 0]
      [] OTHER -> [ok |-> FALSE, val |-> 0]

\* DbSlice::AddNew: a new entry that expires at at_ms, never when at_ms = 0
AddNew(db, key, value, at_ms) ==
    [db EXCEPT ![key] = [str |-> value, expire |-> at_ms]]

\* DbSlice::Expire: the entry expires at at_ms, never when at_ms = 0
Expire(db, key, at_ms) == [db EXCEPT ![key].expire = at_ms]

SetExisting(db, key, value, expire_at_ms) ==
    LET db1 == IF db[key].expire # 0 /\ expire_at_ms # 0
               THEN [db EXCEPT ![key].expire = expire_at_ms]
               ELSE Expire(db, key, expire_at_ms)
    IN  [status |-> "OK", db |-> [db1 EXCEPT ![key].str = value]]

\* SetCmd::Set that stores a new key whatever params.how says
SetCmdSetAlwaysAdds(db, t, params, prev, key, value) ==
    LET at_ms == IF params.expire_after_ms # 0 THEN params.expire_after_ms + t ELSE 0
    IN  IF HasEntry(db[key])
        THEN IF params.how = "SET_IF_NOTEXIST"
             THEN [status |-> "SKIPPED", db |-> db, prev_val |-> prev]
             ELSE LET r == SetExisting(db, key, value, at_ms)
                  IN  [status |-> r.status, db |-> r.db,
                       prev_val |-> IF params.has_prev THEN db[key].str ELSE prev]
        ELSE [status |-> "OK", db |-> AddNew(db, key, value, at_ms), prev_val |-> prev]

\* SetCmd::Set on the DbSlice db at time t: the status, the DbSlice and
\* *params.prev_val afterwards (prev when the pointer is null)
SetCmdSet(db, t, params, prev, key, value) ==
    LET at_ms == IF params.expire_after_ms # 0 THEN params.expire_after_ms + t ELSE 0
    IN  IF HasEntry(db[key])
        THEN IF params.how = "SET_IF_NOTEXIST"
             THEN [status |-> "SKIPPED", db |-> db, prev_val |-> prev]
             ELSE LET r == SetExisting(db, key, value, at_ms)
                  IN  [status |-> r.status, db |-> r.db,
                       prev_val |-> IF params.has_prev THEN db[key].str ELSE prev]
        ELSE IF params.how = "SET_IF_EXISTS"
             THEN [status |-> "SKIPPED", db |-> db, prev_val |-> prev]
             ELSE [status |-> "OK", db |-> AddNew(db, key, value, at_ms), prev_val |-> prev]

SetParams == [how |-> "SET_ALWAYS", expire_after_ms |-> 0, keep_expire |-> FALSE,
              has_prev |-> FALSE]

RECURSIVE ParseSetOptions(_, _, _, _, _)
\* The option loop of StringFamily::Set from args[i] on: whether it returned
\* from the handler, the parameters, the replies sent, whether it read
\* args[args.size()] and whether that read ended the process. beyond is
\* what the read of args[args.size()] yields.
ParseSetOptions(args, i, sparams, sent, beyond) ==
    IF i >= Len(args)
    THEN [returned |-> FALSE, sparams |-> sparams, sent |-> sent,
          read_beyond |-> FALSE, crashed |-> FALSE]
    ELSE LET cur_arg == ToUpper(ArgS(args, i)) IN
         IF cur_arg \in {"EX", "PX"}
         THEN LET is_ms == cur_arg = "PX"
                  missing == i + 1 = Len(args)
                  sent1 == IF missing THEN Append(sent, kSyntaxErr) ELSE sent
                  ex == IF missing THEN beyond ELSE ArgS(args, i + 1)
                  int_arg == SimpleAtoi(ex)
                  out == [returned |-> TRUE, sparams |-> sparams, sent |-> sent1,
                          read_beyond |-> missing, crashed |-> FALSE]
              IN  IF missing /\ beyond = Crashed
                  THEN [out EXCEPT !.crashed = TRUE]
                  ELSE IF ~int_arg.ok
                  THEN [out EXCEPT !.sent = Append(sent1, kInvalidIntErr)]
                  ELSE IF int_arg.val <= 0 \/ (~is_ms /\ int_arg.val >= kMaxExpireSec)
                  THEN [out EXCEPT !.sent = Append(sent1, kInvalidExpireErr)]
                  ELSE LET ms == IF is_ms THEN int_arg.val ELSE int_arg.val * kMsPerSec
                           rest == ParseSetOptions(args, i + 2,
                                       [sparams EXCEPT !.expire_after_ms = ms],
                                       sent1, beyond)
                       IN  [rest EXCEPT !.read_beyond = rest.read_beyond \/ missing]
         ELSE IF cur_arg = "NX"
         THEN ParseSetOptions(args, i + 1, [sparams EXCEPT !.how = "SET_IF_NOTEXIST"],
                              sent, beyond)
         ELSE IF cur_arg = "XX"
         THEN ParseSetOptions(args, i + 1, [sparams EXCEPT !.how = "SET_IF_EXISTS"],
                              sent, beyond)
         ELSE IF cur_arg = "KEEPTTL"
         THEN ParseSetOptions(args, i + 1, [sparams EXCEPT !.keep_expire = TRUE],
                              sent, beyond)
         ELSE [returned |-> TRUE, sparams |-> sparams, sent |-> Append(sent, kSyntaxErr),
               read_beyond |-> FALSE, crashed |-> FALSE]

\* no command in progress
NoCall == [op |-> "none", crashed |-> FALSE]

\* no call of SetCmd::Set made
NoSetCall == [made |-> FALSE]

\* the server after start: an empty DbSlice and a connection that sent nothing
ServerStarted ==
    /\ db_slice = [key \in StrKeys |-> NoEntry]
    /\ now = StartMs
    /\ reply = <<>>
    /\ call = NoCall

\* the connection is ready to dispatch a command
Dispatching ==
    /\ client = "server"
    /\ call = NoCall
    /\ UNCHANGED <<tree, now>>

\* the record of a call of SetCmd::Set and of its result
SetCall(params, prev, key, value, res) ==
    [made |-> TRUE, params |-> params, key |-> key, value |-> value,
     status |-> res.status, prev_before |-> prev, prev_after |-> res.prev_val]

\* StringFamily::Set on the command args
StringFamilySet(args, beyond) ==
    LET key == ArgS(args, 1)
        value == ArgS(args, 2)
        parsed == ParseSetOptions(args, 3, SetParams, <<>>, beyond)
        result == SetCmdSet(db_slice, now, parsed.sparams, nullopt, key, value)
    IN  /\ Dispatching
        /\ IF parsed.returned
           THEN /\ db_slice' = db_slice
                /\ reply' = parsed.sent
                /\ call' = [op |-> "SET", args |-> args, before |-> db_slice,
                            read_beyond |-> parsed.read_beyond,
                            crashed |-> parsed.crashed, set |-> NoSetCall]
           ELSE /\ db_slice' = result.db
                /\ reply' = Append(parsed.sent,
                                   IF result.status = "OK" THEN Stored ELSE Null)
                /\ call' = [op |-> "SET", args |-> args, before |-> db_slice,
                            read_beyond |-> parsed.read_beyond,
                            crashed |-> parsed.crashed,
                            set |-> SetCall(parsed.sparams, nullopt, key, value, result)]

\* StringFamily::GetSet on the command <<"GETSET", key, value>>
StringFamilyGetSet(key, value) ==
    LET sparams == [SetParams EXCEPT !.has_prev = TRUE]
        result == SetCmdSet(db_slice, now, sparams, nullopt, key, value)
    IN  /\ Dispatching
        /\ db_slice' = result.db
        /\ reply' = IF result.status # "OK" THEN <<StatusError(result.status)>>
                    ELSE IF result.prev_val # nullopt THEN <<GetReply(result.prev_val)>>
                    ELSE <<Null>>
        /\ call' = [op |-> "GETSET", args |-> <<"GETSET", key, value>>,
                    before |-> db_slice, read_beyond |-> FALSE, crashed |-> FALSE,
                    set |-> SetCall(sparams, nullopt, key, value, result)]

\* A call of SetCmd::Set by some other caller, with any parameters and with
\* *prev_val holding prev
CallSetCmdSet(params, prev, key, value) ==
    LET result == SetCmdSet(db_slice, now, params, prev, key, value) IN
    /\ Dispatching
    /\ db_slice' = result.db
    /\ reply' = <<>>
    /\ call' = [op |-> "SetCmd::Set", args |-> <<>>, before |-> db_slice,
                read_beyond |-> FALSE, crashed |-> FALSE,
                set |-> SetCall(params, prev, key, value, result)]

\* the connection has sent its replies and reads the next command, unless
\* the process has ended
ReadNextCommand ==
    /\ client = "server"
    /\ call # NoCall
    /\ ~call.crashed
    /\ reply' = <<>>
    /\ call' = NoCall
    /\ UNCHANGED <<tree, db_slice, now>>

\* the option lists of up to MaxOpts words
RECURSIVE OptionLists(_)
OptionLists(n) ==
    IF n = 0 THEN {<<>>}
    ELSE OptionLists(n - 1)
         \cup {Append(opts, word) : opts \in {o \in OptionLists(n - 1) : Len(o) = n - 1},
                                    word \in Tokens}

SetParamsChoices ==
    [how : {"SET_ALWAYS", "SET_IF_NOTEXIST", "SET_IF_EXISTS"},
     expire_after_ms : {0, 10}, keep_expire : {FALSE}, has_prev : BOOLEAN]

\* what the read of args[args.size()] may yield in the command args, which
\* reads it only when its last word is EX or PX
BeyondOf(args) ==
    IF ToUpper(args[Len(args)]) \in {"EX", "PX"} THEN BeyondArgs ELSE {Crashed}

NextServer ==
    \/ /\ call = NoCall
       /\ \E key \in StrKeys : \E value \in StrValues : \E opts \in OptionLists(MaxOpts) :
             \E beyond \in BeyondOf(<<"SET", key, value>> \o opts) :
                StringFamilySet(<<"SET", key, value>> \o opts, beyond)
    \/ /\ call = NoCall
       /\ \E key \in StrKeys : \E value \in StrValues : StringFamilyGetSet(key, value)
    \/ /\ call = NoCall
       /\ \E params \in SetParamsChoices : \E prev \in {nullopt, "v0"} :
             \E key \in StrKeys : \E value \in StrValues :
                CallSetCmdSet(params, prev, key, value)
    \/ ReadNextCommand

----------------------------------------------------------------------------
(* The tree as a state machine *)

\* key is even and lies two above the largest or two below the smallest key
InsertsAtEnd(key) ==
    /\ key % 2 = 0
    /\ \/ present = {}
       \/ key - 2 \in present /\ \A y \in present : y < key
       \/ key + 2 \in present /\ \A y \in present : y > key

\* key is the largest or the smallest key of the tree
RemovesAtEnd(key) ==
    /\ key \in present
    /\ (\A y \in present : y <= key) \/ (\A y \in present : y >= key)

\* the deque client may make its one operation away from the ends
InStrayWindow(key) == key <= MaxStray /\ \A y \in present : y <= MaxStray

NoBench == [op |-> "none"]

\* The runs explored, as <<key size, client>>: 64-byte keys give 3 keys per
\* leaf and 3 per inner node, 56-byte keys 4 and 3, 8-byte keys 31 and 15.
Clients == {<<64, "any">>, <<56, "any">>, <<64, "deque">>, <<8, "stack">>}

BenchClients == {<<64, "bench">>, <<56, "bench">>}

\* the state after construction
Constructed(clients) ==
    /\ \E c \in clients : kKeySize = c[1] /\ client = c[2]
    /\ root = NullNode
    /\ count_ = 0
    /\ present = {}
    /\ op = "none"
    /\ ret = FALSE
    /\ strayed = FALSE
    /\ bench = NoBench
    /\ ServerStarted

Init == Constructed(Clients)

\* The client's choice of the operation: atEnd says the operation is one the
\* deque client repeats freely, stackKey is the key the stack client uses.
ClientChoice(key, atEnd, stackKey) ==
    /\ client = "deque" => ~strayed /\ (atEnd \/ InStrayWindow(key))
    /\ client = "stack" => key = stackKey
    /\ client \in {"bench", "prim"} => bench = NoBench
    /\ client = "prim" => atEnd
    /\ strayed' = (client = "deque" /\ ~atEnd)
    /\ UNCHANGED <<kKeySize, client>>
    /\ UNCHANGED server

Client(key, atEnd, stackKey) ==
    /\ ClientChoice(key, atEnd, stackKey)
    /\ UNCHANGED bench

Insert(key) ==
    LET res == TreeInsert(root, key) IN
    /\ Client(key, InsertsAtEnd(key), count_ + 1)
    /\ root' = res.root
    /\ ret' = res.ret
    /\ count_' = IF res.ret THEN count_ + 1 ELSE count_
    /\ present' = present \cup {key}
    /\ op' = "insert"

Remove(key) ==
    LET res == TreeDelete(root, key) IN
    /\ Client(key, RemovesAtEnd(key), count_)
    /\ root' = res.root
    /\ ret' = res.ret
    /\ count_' = IF res.ret THEN count_ - 1 ELSE count_
    /\ present' = present \ {key}
    /\ op' = "remove"

Next ==
    \/ \E key \in Keys : Insert(key)
    \/ \E key \in Keys : Remove(key)

Spec == Init /\ [][Next]_vars

----------------------------------------------------------------------------
(* Node primitives applied to the nodes of a tree *)

ChildIndexes(n) == IF IsLeaf(n) THEN {} ELSE 0 .. NumItems(n)

RECURSIVE NodePaths(_)
\* the position paths of all the nodes under n
NodePaths(n) ==
    {<<>>} \cup UNION {{<<i>> \o ps : ps \in NodePaths(Child(n, i))} : i \in ChildIndexes(n)}

TreePaths == IF IsNull(root) THEN {} ELSE NodePaths(root)

BenchStep ==
    /\ client = "bench"
    /\ bench = NoBench
    /\ UNCHANGED <<kKeySize, root, count_, present, op, ret, client, strayed>>
    /\ UNCHANGED server

\* BSearch(key) on the node at path
BenchBSearch(path, key) ==
    /\ BenchStep
    /\ bench' = [op |-> "BSearch", node |-> NodeAt(root, path), key |-> key,
                 res |-> BSearch(NodeAt(root, path), key)]

\* Split(right, &median) of the node at path, which holds a key
BenchSplit(path) ==
    /\ BenchStep
    /\ NumItems(NodeAt(root, path)) >= 1
    /\ bench' = [op |-> "Split", node |-> NodeAt(root, path),
                 res |-> Split(NodeAt(root, path))]

InitNode == Constructed(BenchClients)

NextNode ==
    \/ Next
    \/ \E path \in TreePaths : \E key \in 0 .. MaxBenchKey + 1 : BenchBSearch(path, key)
    \/ \E path \in TreePaths : BenchSplit(path)

SpecNode == InitNode /\ [][NextNode]_vars

----------------------------------------------------------------------------
(* The tree with the structural calls of its last operation on record *)

\* insert(key): it makes no call of MergeOrRebalanceChild
InsertLogged(key) ==
    LET res == TreeInsert(root, key) IN
    /\ ClientChoice(key, InsertsAtEnd(key), count_ + 1)
    /\ root' = res.root
    /\ ret' = res.ret
    /\ count_' = IF res.ret THEN count_ + 1 ELSE count_
    /\ present' = present \cup {key}
    /\ op' = "insert"
    /\ bench' = [op |-> "calls", calls |-> <<>>]

\* remove(key), with its calls of MergeOrRebalanceChild
RemoveLogged(key) ==
    LET res == TreeDelete(root, key) IN
    /\ ClientChoice(key, RemovesAtEnd(key), count_)
    /\ root' = res.root
    /\ ret' = res.ret
    /\ count_' = IF res.ret THEN count_ - 1 ELSE count_
    /\ present' = present \ {key}
    /\ op' = "remove"
    /\ bench' = [op |-> "calls", calls |-> DeleteCalls(root, key)]

LoggedClients == {<<64, "any">>, <<56, "any">>, <<64, "deque">>}

InitCalls == Constructed(LoggedClients)

NextCalls ==
    \/ \E key \in Keys : InsertLogged(key)
    \/ \E key \in Keys : RemoveLogged(key)

SpecCalls == InitCalls /\ [][NextCalls]_vars

----------------------------------------------------------------------------
(* Node primitives applied to the nodes of trees of up to three levels *)

\* 32-byte keys give 7 keys per leaf and 6 per inner node
PrimClients == {<<64, "prim">>, <<56, "prim">>, <<32, "prim">>}

PrimStep ==
    /\ client = "prim"
    /\ bench = NoBench
    /\ UNCHANGED <<kKeySize, root, count_, present, op, ret, client, strayed>>
    /\ UNCHANGED server

\* the inner nodes of the tree, by their position paths
InnerPaths == {path \in TreePaths : ~IsLeaf(NodeAt(root, path))}

\* RebalanceChild(pos, insert_pos) on the inner node at path, whose child
\* at pos is full
PrimRebalanceChild(path, pos, insert_pos) ==
    LET p == NodeAt(root, path) IN
    /\ PrimStep
    /\ pos \in 0 .. NumItems(p)
    /\ AvailableSlotCount(Child(p, pos)) = 0
    /\ insert_pos \in 0 .. NumItems(Child(p, pos))
    /\ bench' = [op |-> "RebalanceChild", parent |-> p, pos |-> pos,
                 insert_pos |-> insert_pos,
                 res |-> RebalanceChild(p, pos, insert_pos)]

\* ShiftLeft(index, child_step_right) on the node at path
PrimShiftLeft(path, index, child_step_right) ==
    LET n == NodeAt(root, path) IN
    /\ PrimStep
    /\ index \in 0 .. NumItems(n) - 1
    /\ bench' = [op |-> "ShiftLeft", node |-> n, index |-> index,
                 child_step_right |-> child_step_right,
                 res |-> ShiftLeft(n, index, child_step_right)]

\* What the child slot beyond the old count may hold when nothing wrote it:
\* the constructor does not clear the slots, and a ShiftLeft or a Split
\* leaves its old pointers behind.
StaleChildren(n) ==
    IF IsLeaf(n) THEN {NullNode}
    ELSE {NullNode} \cup {Child(n, i) : i \in 0 .. NumItems(n)}

\* the items next to the keys around slot index of n
NearItems(n, index) ==
    {Key(n, i) + d : i \in (0 .. NumItems(n) - 1) \cap {index - 1, index}, d \in {-1, 1}}
        \cap Keys

\* InsertItem(index, item) on the node at path, which has a free slot; item
\* fits between its neighbours and is next to one of them
PrimInsertItem(path, index, item, stale) ==
    LET n == NodeAt(root, path)
        res == InsertItem(n, index, item)
    IN  /\ PrimStep
        /\ NumItems(n) < MaxItems(n)
        /\ index \in 0 .. NumItems(n)
        /\ IF index = 0 THEN TRUE ELSE Key(n, index - 1) < item
        /\ IF index = NumItems(n) THEN TRUE ELSE Key(n, index) > item
        /\ item \in NearItems(n, index)
        /\ stale \in StaleChildren(n)
        /\ bench' = [op |-> "InsertItem", node |-> n, index |-> index, item |-> item,
                     res |-> IF ~IsLeaf(n) /\ index = NumItems(n)
                             THEN SetChild(res, index + 1, stale)
                             ELSE res]

\* MergeFromRight on the child at pos of the inner node at path, with the
\* separator and the right sibling, where the three fit one node
PrimMergeFromRight(path, pos) ==
    LET p == NodeAt(root, path)
        n == Child(p, pos)
        right == Child(p, pos + 1)
    IN  /\ PrimStep
        /\ pos \in 0 .. NumItems(p) - 1
        /\ NumItems(n) + 1 + NumItems(right) <= MaxItems(n)
        /\ bench' = [op |-> "MergeFromRight", node |-> n, key |-> Key(p, pos),
                     right |-> right, res |-> MergeFromRight(n, Key(p, pos), right)]

\* RebalanceChildToLeft(pos, count) on the inner node at path: the child at
\* pos has count keys or more and its left sibling count free slots or more
PrimRebalanceChildToLeft(path, pos, count) ==
    LET p == NodeAt(root, path) IN
    /\ PrimStep
    /\ pos \in 1 .. NumItems(p)
    /\ count \in 1 .. NumItems(Child(p, pos))
    /\ count <= AvailableSlotCount(Child(p, pos - 1))
    /\ bench' = [op |-> "RebalanceChildToLeft", parent |-> p, pos |-> pos,
                 count |-> count, res |-> RebalanceChildToLeft(p, pos, count)]

\* RebalanceChildToRight(pos, count) on the inner node at path: the child at
\* pos has count keys or more and its right sibling, which holds a key,
\* count free slots or more
PrimRebalanceChildToRight(path, pos, count) ==
    LET p == NodeAt(root, path) IN
    /\ PrimStep
    /\ pos \in 0 .. NumItems(p) - 1
    /\ count \in 1 .. NumItems(Child(p, pos))
    /\ count <= AvailableSlotCount(Child(p, pos + 1))
    /\ NumItems(Child(p, pos + 1)) > 0
    /\ bench' = [op |-> "RebalanceChildToRight", parent |-> p, pos |-> pos,
                 count |-> count, res |-> RebalanceChildToRight(p, pos, count)]

RECURSIVE PathAlong(_, _, _)
\* the path that holds n and then the nodes below it along the positions ps,
\* each record with the position taken in its node; the last record holds
\* the node reached and top_pos
PathAlong(n, ps, top_pos) ==
    IF ps = <<>>
    THEN Push(EmptyPath, n, top_pos)
    ELSE LET rest == PathAlong(Child(n, Head(ps)), Tail(ps), top_pos)
         IN  [rest EXCEPT !.record_ = <<[node |-> n, pos |-> Head(ps)]>> \o rest.record_]

\* DigRight on the path from the root to the inner node at ps
PrimDigRight(ps, top_pos) ==
    /\ PrimStep
    /\ top_pos \in 0 .. NumItems(NodeAt(root, ps))
    /\ bench' = [op |-> "DigRight", path |-> PathAlong(root, ps, top_pos),
                 res |-> DigRight(PathAlong(root, ps, top_pos))]

InitPrim == Constructed(PrimClients)

NextPrim ==
    \/ Next
    \/ \E path \in InnerPaths : \E pos \in 0 .. kMaxInnerKeys :
          \E insert_pos \in 0 .. kMaxLeafKeys : PrimRebalanceChild(path, pos, insert_pos)
    \/ \E path \in TreePaths : \E index \in 0 .. kMaxLeafKeys - 1 :
          \E child_step_right \in BOOLEAN : PrimShiftLeft(path, index, child_step_right)
    \/ \E path \in InnerPaths : \E top_pos \in 0 .. kMaxInnerKeys : PrimDigRight(path, top_pos)

SpecPrim == InitPrim /\ [][NextPrim]_vars

\* The same trees with one of the operations that fill or drain a node
NextPrimNode ==
    \/ Next
    \/ \E path \in TreePaths : \E index \in 0 .. kMaxLeafKeys - 1 :
          \E item \in NearItems(NodeAt(root, path), index) :
          \E stale \in StaleChildren(NodeAt(root, path)) :
             PrimInsertItem(path, index, item, stale)
    \/ \E path \in InnerPaths : \E pos \in 0 .. kMaxInnerKeys - 1 : PrimMergeFromRight(path, pos)
    \/ \E path \in InnerPaths : \E pos \in 1 .. kMaxInnerKeys :
          \E count \in 1 .. kMaxLeafKeys : PrimRebalanceChildToLeft(path, pos, count)
    \/ \E path \in InnerPaths : \E pos \in 0 .. kMaxInnerKeys - 1 :
          \E count \in 1 .. kMaxLeafKeys : PrimRebalanceChildToRight(path, pos, count)

SpecPrimNode == InitPrim /\ [][NextPrimNode]_vars

\* The server with no tree client: the string commands on one connection
InitServer == Constructed({<<64, "server">>})

SpecServer == InitServer /\ [][NextServer]_vars

----------------------------------------------------------------------------
(* Observations of a tree *)

RECURSIVE InOrderFrom(_, _)
RECURSIVE InOrder(_)
\* children i.. of n interleaved with keys i..
InOrderFrom(n, i) ==
    IF i = NumItems(n)
    THEN InOrder(Child(n, i))
    ELSE InOrder(Child(n, i)) \o <<Key(n, i)>> \o InOrderFrom(n, i + 1)

InOrder(n) ==
    IF IsNull(n) THEN <<>>
    ELSE IF IsLeaf(n) THEN n.keys
    ELSE InOrderFrom(n, 0)

StrictlyIncreasing(s) == \A i \in 1 .. Len(s) - 1 : s[i] < s[i + 1]

SeqSet(s) == {s[i] : i \in 1 .. Len(s)}

RECURSIVE Height(_)
\* the number of levels of the tree under n (an inner node's first child
\* stands for all of them; AllLeavesSameDepth is what says so)
Height(n) ==
    IF IsNull(n) THEN 0 ELSE IF IsLeaf(n) THEN 1 ELSE 1 + Height(Child(n, 0))

RECURSIVE MinFilled(_, _)
\* every node under n, n itself unless it is the root, holds MinItems keys
MinFilled(n, isRoot) ==
    /\ isRoot \/ NumItems(n) >= MinItems(n)
    /\ \A i \in ChildIndexes(n) : MinFilled(Child(n, i), FALSE)

RECURSIVE LeafDepths(_)
\* the depths at which the leaves under n lie
LeafDepths(n) ==
    IF IsLeaf(n) THEN {1}
    ELSE {d + 1 : d \in UNION {LeafDepths(Child(n, i)) : i \in ChildIndexes(n)}}

RECURSIVE SeparatorsOrdered(_)
\* in every inner node under n, key i lies strictly between the keys of the
\* subtree of child i and those of the subtree of child i + 1
SeparatorsOrdered(n) ==
    /\ \A i \in 0 .. NumItems(n) - 1 :
          IsLeaf(n) \/
          /\ \A k \in SeqSet(InOrder(Child(n, i))) : k < Key(n, i)
          /\ \A k \in SeqSet(InOrder(Child(n, i + 1))) : k > Key(n, i)
    /\ \A i \in ChildIndexes(n) : SeparatorsOrdered(Child(n, i))

\* One absent key of the client's range out of every gap between the keys of
\* the tree (every absent key when the tree is empty): the tree compares
\* keys only, so another absent key of the same gap takes the same path.
GapKeys ==
    {k \in Keys \ present : present = {} \/ k - 1 \in present \/ k + 1 \in present}

\* insert(k) on the tree of this state, then remove(k) at once
InsertThenRemove(k) ==
    LET ins == TreeInsert(root, k)
        rem == CHOOSE d \in {TreeDelete(r, k) : r \in {ins.root}} : TRUE
    IN  [inserted |-> ins.ret, grown |-> ins.root, removed |-> rem.ret, root |-> rem.root]

\* the absent keys near the keys of the tree: the keys a round trip inserts
NearKeys ==
    {k \in Keys \ present :
        present = {} \/ \E d \in {-2, -1, 1, 2} : k + d \in present}

\* the one- and two-key insertion sequences over NearKeys
InsertSeqs ==
    {<<k>> : k \in NearKeys}
        \cup {ks \in NearKeys \X NearKeys : ks[1] # ks[2]}

RECURSIVE InsertAll(_, _)
\* insert the keys of ks into r, first to last
InsertAll(r, ks) ==
    IF ks = <<>> THEN r
    ELSE CHOOSE t \in {InsertAll(r1, Tail(ks)) : r1 \in {TreeInsert(r, Head(ks)).root}} : TRUE

RECURSIVE RemoveAllReversed(_, _)
\* remove the keys of ks from r, last to first
RemoveAllReversed(r, ks) ==
    IF ks = <<>> THEN r
    ELSE CHOOSE t \in {RemoveAllReversed(r1, Front(ks)) :
                          r1 \in {TreeDelete(r, Last(ks)).root}} : TRUE

\* the tree of this state after inserting ks and removing it in reverse,
\* with the tree between the two halves
RoundTrip(ks) ==
    LET top == InsertAll(root, ks)
    IN  [top |-> top, root |-> CHOOSE t \in {RemoveAllReversed(r, ks) : r \in {top}} : TRUE]

SingleLeafRoot == ~IsNull(root) /\ IsLeaf(root) /\ bench = NoBench

----------------------------------------------------------------------------
(* The claims *)

\* C1: after any sequence of insert and remove calls on an initially empty
\* tree the in-order traversal is strictly increasing and its keys are
\* exactly the keys inserted and not removed since.
InOrderIsPresentKeys ==
    /\ StrictlyIncreasing(InOrder(root))
    /\ SeqSet(InOrder(root)) = present

\* a key was removed from a tree of three levels
RemovedFromDeepTree == op = "remove" /\ ret /\ Height(root) = 3

\* C2: after every insert or remove, every node other than the root holds
\* at least MinItems keys, whatever the capacities of the instantiation.
NonRootNodesMinFilled == IsNull(root) \/ MinFilled(root, TRUE)

\* C3: after any sequence of inserts and removes, root splits, merges and
\* root collapse included, all leaves of the tree lie at the same depth.
AllLeavesSameDepth == IsNull(root) \/ Cardinality(LeafDepths(root)) = 1

\* a remove left a full leaf as the root: the tree held one key more than a
\* leaf can, so the remove merged the leaves and the root collapsed
RootCollapsedToLeaf ==
    /\ op = "remove" /\ ret
    /\ ~IsNull(root) /\ IsLeaf(root) /\ NumItems(root) = kMaxLeafKeys

\* C4: in every reachable tree every separator of every inner node lies
\* strictly above the keys of the subtree on its left and strictly below
\* the keys of the subtree on its right.
SeparatorsSplitSubtrees == IsNull(root) \/ SeparatorsOrdered(root)

\* a key went into a tree of three levels whose root holds two separators
InsertedIntoDeepTree ==
    op = "insert" /\ ret /\ Height(root) = 3 /\ NumItems(root) >= 2

\* C5: on a node with strictly increasing keys BSearch returns the smallest
\* index whose key is not below the probe, or the count when every key is
\* below it, and found exactly when the key at that index is the probe.
BSearchFindsLowerBound ==
    bench.op = "BSearch" =>
        LET n == bench.node
            cnt == NumItems(n)
            index == bench.res.index
        IN  /\ StrictlyIncreasing(n.keys)
            /\ index \in 0 .. cnt
            /\ \A i \in 0 .. index - 1 : Key(n, i) < bench.key
            /\ index < cnt => Key(n, index) >= bench.key
            /\ bench.res.found <=> (index < cnt /\ Key(n, index) = bench.key)

\* the probe is the last key of a full leaf
BSearchFoundLastKey ==
    /\ bench.op = "BSearch"
    /\ IsLeaf(bench.node) /\ NumItems(bench.node) = kMaxLeafKeys
    /\ bench.res.found /\ bench.res.index = kMaxLeafKeys - 1

\* C6: Split of a node of c keys returns key(c / 2) as the median, leaves
\* the keys before it and the children [0, c / 2] in the node, moves the
\* keys after it and the children after c / 2 to right in order, gives right
\* the node's leaf flag, and keeps the median out of both nodes.
SplitExtractsMedian ==
    bench.op = "Split" =>
        LET n == bench.node
            c == NumItems(n)
            m == c \div 2
            left == bench.res.left
            right == bench.res.right
        IN  /\ bench.res.median = Key(n, m)
            /\ NumItems(left) = m
            /\ left.keys = Slots(n.keys, 0, m)
            /\ right.keys = Slots(n.keys, m + 1, c)
            /\ IsLeaf(left) = IsLeaf(n)
            /\ IsLeaf(right) = IsLeaf(n)
            /\ ~IsLeaf(n) =>
                  /\ left.children = Slots(n.children, 0, m + 1)
                  /\ right.children = Slots(n.children, m + 1, c + 1)
            /\ NumItems(left) + NumItems(right) + 1 = c
            /\ bench.res.median \notin SeqSet(left.keys) \cup SeqSet(right.keys)

\* a full inner node was split
SplitFullInnerNode ==
    /\ bench.op = "Split"
    /\ ~IsLeaf(bench.node) /\ NumItems(bench.node) = kMaxInnerKeys

\* C7: insert of a key the tree holds returns false and leaves the size and
\* the whole tree as they were; insert of a key the tree does not hold
\* returns true and makes the size one larger.
InsertReturnsWhetherAbsent ==
    [][(op' = "insert" /\ bench' = bench) =>
          IF present' \subseteq SeqSet(InOrder(root))
          THEN ~ret' /\ root' = root /\ count_' = count_
          ELSE ret' /\ count_' = count_ + 1]_vars

\* an insert into a tree of several levels found its key there
DuplicateInsertRejected == op = "insert" /\ ~ret /\ Height(root) >= 2

\* C8: on any reachable tree, insert of an absent key followed at once by
\* remove of that key succeeds twice and gives back the in-order key
\* sequence and the size the tree had.
InsertThenRemoveRestores ==
    bench = NoBench =>
        \A k \in GapKeys :
            \A t \in {InsertThenRemove(k)} :
                /\ t.inserted /\ t.removed
                /\ InOrder(t.root) = InOrder(root)
                /\ Len(InOrder(t.root)) = count_

\* the insert of the pair adds a level to a tree of two levels
InsertThenRemoveAcrossRootSplit ==
    /\ Height(root) = 2
    /\ \E k \in GapKeys : Height(InsertThenRemove(k).grown) = 3

FullLeafRootSplits ==
    [][(/\ op' = "insert" /\ ret' /\ bench' = bench
        /\ ~IsNull(root) /\ IsLeaf(root) /\ NumItems(root) = kMaxLeafKeys) =>
          /\ ~IsLeaf(root')
          /\ NumItems(root') = 1
          /\ Key(root', 0) = Key(root, kMaxLeafKeys \div 2)
          /\ Len(root'.children) = 2
          /\ IsLeaf(Child(root', 0)) /\ IsLeaf(Child(root', 1))
          /\ (kMaxLeafKeys = 31 /\ root.keys = [i \in 1 .. 31 |-> i] /\ 32 \in present') =>
                /\ Key(root', 0) = 16
                /\ NumItems(Child(root', 0)) = 15
                /\ NumItems(Child(root', 1)) = 16]_vars

\* 32 was inserted after 1..31 into the tree of 31 keys a leaf
ThirtyTwoAfterFullLeaf == kKeySize = 8 /\ op = "insert" /\ ret /\ count_ = 32

\* the parent p without key i and child j
WithoutKeyAndChild(p, i, j) ==
    [p EXCEPT !.keys = Slots(p.keys, 0, i) \o Slots(p.keys, i + 1, NumItems(p)),
              !.children = Slots(p.children, 0, j)
                           \o Slots(p.children, j + 1, NumItems(p) + 1)]

\* a call of MergeOrRebalanceChild(pos) on p with result res keeps to the
\* order left merge, right merge, rebalance
MergeOrRebalanceInOrder(p, pos, res) ==
    LET child == Child(p, pos)
        fitsLeft == pos > 0 /\ NumItems(Child(p, pos - 1)) + 1 + NumItems(child)
                                  <= MaxItems(child)
        fitsRight == pos < NumItems(p)
                     /\ NumItems(child) + 1 + NumItems(Child(p, pos + 1))
                            <= MaxItems(child)
    IN  /\ NumItems(child) < MinItems(child)
        /\ fitsLeft =>
              LET left == Child(p, pos - 1) IN
              /\ ~IsNull(res.retired) /\ NumItems(res.retired) = 0
              /\ res.parent = SetChild(WithoutKeyAndChild(p, pos - 1, pos), pos - 1,
                                  [left EXCEPT
                                     !.keys = left.keys \o <<Key(p, pos - 1)>> \o child.keys,
                                     !.children = left.children \o child.children])
        /\ (~fitsLeft /\ fitsRight) =>
              LET right == Child(p, pos + 1) IN
              /\ ~IsNull(res.retired) /\ NumItems(res.retired) = 0
              /\ res.parent = SetChild(WithoutKeyAndChild(p, pos, pos + 1), pos,
                                  [child EXCEPT
                                     !.keys = child.keys \o <<Key(p, pos)>> \o right.keys,
                                     !.children = child.children \o right.children])
        /\ (~fitsLeft /\ ~fitsRight) =>
              /\ IsNull(res.retired)
              /\ res.parent # p
        /\ ~IsNull(res.retired) <=> NumItems(res.parent) = NumItems(p) - 1
        /\ IsNull(res.retired) => NumItems(res.parent) = NumItems(p)
        /\ InOrder(res.parent) = InOrder(p)

SiblingFree(p, pos, d) ==
    IF pos + d \in 0 .. NumItems(p) THEN AvailableSlotCount(Child(p, pos + d)) ELSE 0

\* C12 as stated: RebalanceChild on a full child returns nullptr exactly
\* when neither adjacent sibling has a free slot, and otherwise moves at
\* least one item to a sibling and returns a node.
RebalanceFailsOnlyWhenSiblingsFull ==
    bench.op = "RebalanceChild" =>
        LET p == bench.parent
            pos == bench.pos
        IN  /\ ~bench.res.ok <=> (SiblingFree(p, pos, -1) = 0 /\ SiblingFree(p, pos, 1) = 0)
            /\ bench.res.ok =>
                  NumItems(Child(bench.res.parent, pos)) < NumItems(Child(p, pos))

\* C12: RebalanceChild on a full child returns nullptr exactly when neither
\* sibling is usable, the left one being usable with two free slots, or
\* with one when insert_pos is the child's count, the right one with two
\* free slots, or with one when insert_pos is 0; otherwise it moves at
\* least one item to a sibling and returns a node.
RebalanceFailsWhenNoSiblingUsable ==
    bench.op = "RebalanceChild" =>
        LET p == bench.parent
            pos == bench.pos
            cnt == NumItems(Child(p, pos))
            leftUsable == \/ SiblingFree(p, pos, -1) >= 2
                          \/ SiblingFree(p, pos, -1) = 1 /\ bench.insert_pos = cnt
            rightUsable == \/ SiblingFree(p, pos, 1) >= 2
                           \/ SiblingFree(p, pos, 1) = 1 /\ bench.insert_pos = 0
        IN  /\ ~bench.res.ok <=> (~leftUsable /\ ~rightUsable)
            /\ bench.res.ok =>
                  /\ NumItems(Child(bench.res.parent, pos)) < cnt
                  /\ InOrder(bench.res.parent) = InOrder(p)
                  /\ NumItems(bench.res.parent) = NumItems(p)

\* RebalanceChild returned nullptr for an insert into the middle of a full
\* child whose left sibling has one free slot
RebalanceFailedBesideFreeSlot ==
    /\ bench.op = "RebalanceChild"
    /\ ~bench.res.ok
    /\ SiblingFree(bench.parent, bench.pos, -1) = 1
    /\ bench.insert_pos \in 1 .. NumItems(Child(bench.parent, bench.pos)) - 1

\* the keys that may be inserted at insert_pos of the child at pos of p:
\* those strictly between the neighbours of that slot
PendingKeys(p, pos, insert_pos) ==
    LET child == Child(p, pos)
        lower == IF insert_pos > 0 THEN Key(child, insert_pos - 1)
                 ELSE IF pos > 0 THEN Key(p, pos - 1) ELSE -1
        upper == IF insert_pos < NumItems(child) THEN Key(child, insert_pos)
                 ELSE IF pos < NumItems(p) THEN Key(p, pos) ELSE MaxPrimKey + 2
    IN  {k \in 0 .. MaxPrimKey + 1 : lower < k /\ k < upper}

\* C13: when RebalanceChild returns a node and a position, the node is the
\* child or the sibling that received items, it has a free slot, the
\* position is at most its count, and the pending key inserted there keeps
\* the node's keys strictly increasing and between the parent's separators
\* on its two sides.
RebalanceTargetTakesKey ==
    (bench.op = "RebalanceChild" /\ bench.res.ok) =>
        LET p == bench.parent
            pos == bench.pos
            p1 == bench.res.parent
            t == bench.res.child
            node == Child(p1, t)
            ip1 == bench.res.insert_pos
        IN  /\ t \in {pos - 1, pos, pos + 1} \cap (0 .. NumItems(p))
            /\ t # pos => NumItems(node) > NumItems(Child(p, t))
            /\ AvailableSlotCount(node) >= 1
            /\ ip1 \in 0 .. NumItems(node)
            /\ \A k \in PendingKeys(p, pos, bench.insert_pos) :
                  /\ StrictlyIncreasing(InsertItem(node, ip1, k).keys)
                  /\ t > 0 => Key(p1, t - 1) < k
                  /\ t < NumItems(p1) => k < Key(p1, t)

\* the insert into a full inner node was redirected to its left sibling
RedirectedToLeftInnerSibling ==
    /\ bench.op = "RebalanceChild" /\ bench.res.ok
    /\ ~IsLeaf(Child(bench.parent, bench.pos))
    /\ bench.res.child = bench.pos - 1
    /\ PendingKeys(bench.parent, bench.pos, bench.insert_pos) # {}

\* the largest count the 7-bit field num_items_ holds
kMaxNumItems == 127

RECURSIVE WithinCapacity(_)
\* every node under n holds at most MaxItems keys, an inner node one child
\* more than keys, and no count is beyond the 7-bit field
WithinCapacity(n) ==
    /\ NumItems(n) \in 0 .. MaxItems(n)
    /\ MaxItems(n) <= kMaxNumItems
    /\ ~IsLeaf(n) => Len(n.children) = NumItems(n) + 1
    /\ \A i \in ChildIndexes(n) : WithinCapacity(Child(n, i))

\* C14: in every reachable state every node holds between 0 and MaxItems
\* keys, which the 7-bit count field can hold.
CountsWithinCapacity == IsNull(root) \/ WithinCapacity(root)

\* a remove left a full inner root over a full leaf
FullRootOverFullLeaf ==
    /\ op = "remove" /\ ret
    /\ Height(root) = 2 /\ NumItems(root) = kMaxInnerKeys
    /\ \E i \in ChildIndexes(root) : NumItems(Child(root, i)) = kMaxLeafKeys

\* C15: after a remove the root is never an inner node without keys; the
\* tree loses at most one level, and only when the old root held one key,
\* whose two children were merged into the new root.
RootCollapsesWhenEmptied ==
    [][op' = "remove" =>
          \/ IsNull(root')
          \/ /\ IsLeaf(root') \/ NumItems(root') >= 1
             /\ Height(root') \in {Height(root), Height(root) - 1}
             /\ Height(root') = Height(root) - 1 =>
                   /\ NumItems(root) = 1
                   /\ Len(InOrder(root')) = Len(InOrder(root)) - 1]_vars

\* a remove merged the two inner children of the root and the tree went
\* from three levels to two
InnerRootCollapsed ==
    /\ bench.op = "calls" /\ Len(bench.calls) >= 1
    /\ Height(root) = 2
    /\ LET last == bench.calls[Len(bench.calls)]
       IN  /\ NumItems(last.parent) = 1
           /\ ~IsLeaf(Child(last.parent, 0))
           /\ ~IsNull(last.res.retired)
           /\ root = Child(last.res.parent, 0)

\* the sequence seq without its slot i
WithoutSlot(seq, i) == Slots(seq, 0, i) \o Slots(seq, i + 1, Len(seq))

\* C16: ShiftLeft(i, child_step_right) on an inner node removes key i and
\* one child, the child at i when child_step_right is false and the child
\* at i + 1 when it is true, keeps the other keys and children in order and
\* makes the count one smaller, for every i below the count.
ShiftLeftRemovesKeyAndChild ==
    (bench.op = "ShiftLeft" /\ ~IsLeaf(bench.node)) =>
        LET n == bench.node
            i == bench.index
        IN  /\ NumItems(bench.res) = NumItems(n) - 1
            /\ bench.res.keys = WithoutSlot(n.keys, i)
            /\ bench.res.children =
                  WithoutSlot(n.children, IF bench.child_step_right THEN i + 1 ELSE i)

InsertItemKeys(n, i, item, res) ==
    LET cnt == NumItems(n) IN
    /\ NumItems(res) = cnt + 1
    /\ Key(res, i) = item
    /\ Slots(res.keys, i + 1, cnt + 1) = Slots(n.keys, i, cnt)
    /\ Slots(res.keys, 0, i) = Slots(n.keys, 0, i)

\* C18 as stated: InsertItem(i, key) on a node with a free slot, for every
\* i in [0, count]: the count grows by one, key(i) = key, the keys formerly
\* at [i, count) are at [i+1, count], the keys below i are untouched, and
\* on an inner node the children formerly at [i, count] are at
\* [i+1, count+1].
InsertItemShiftsKeysAndChildren ==
    bench.op = "InsertItem" =>
        LET n == bench.node
            i == bench.index
            cnt == NumItems(n)
        IN  /\ InsertItemKeys(n, i, bench.item, bench.res)
            /\ ~IsLeaf(n) =>
                  Slots(bench.res.children, i + 1, cnt + 2) = Slots(n.children, i, cnt + 1)

\* C18: InsertItem(i, key) on a node with a free slot, for every i in
\* [0, count]: the count grows by one, key(i) = key, the keys formerly at
\* [i, count) are at [i+1, count], the keys below i are untouched; on an
\* inner node with i < count the children formerly at [i, count] are at
\* [i+1, count+1] and those below i stay, and with i = count no child
\* moves: the children at [0, count] stay where they are.
InsertItemShiftsChildrenBelowCount ==
    bench.op = "InsertItem" =>
        LET n == bench.node
            i == bench.index
            cnt == NumItems(n)
        IN  /\ InsertItemKeys(n, i, bench.item, bench.res)
            /\ ~IsLeaf(n) /\ i < cnt =>
                  /\ Slots(bench.res.children, i + 1, cnt + 2) = Slots(n.children, i, cnt + 1)
                  /\ Slots(bench.res.children, 0, i) = Slots(n.children, 0, i)
            /\ ~IsLeaf(n) /\ i = cnt =>
                  Slots(bench.res.children, 0, cnt + 1) = n.children

\* InsertItem at i = count on an inner node over inner nodes
InsertItemAtCountOfInnerNode ==
    /\ bench.op = "InsertItem"
    /\ ~IsLeaf(bench.node)
    /\ bench.index = NumItems(bench.node)
    /\ ~IsLeaf(Child(bench.node, 0))

\* C19: MergeFromRight(sep_key, right) where the node, the separator and
\* right fit one node: the node holds its old keys, then sep_key, then
\* right's keys in order, its count being the old count + 1 + right's
\* count; an inner node holds its old children and then all the children of
\* right in order; right is left with no key.
MergeFromRightAppendsAll ==
    bench.op = "MergeFromRight" =>
        LET n == bench.node
            right == bench.right
            res == bench.res.node
            cnt == NumItems(n)
            rcnt == NumItems(right)
        IN  /\ NumItems(res) = cnt + 1 + rcnt
            /\ \A i \in 0 .. cnt - 1 : Key(res, i) = Key(n, i)
            /\ Key(res, cnt) = bench.key
            /\ \A i \in 0 .. rcnt - 1 : Key(res, cnt + 1 + i) = Key(right, i)
            /\ IsLeaf(res) = IsLeaf(n)
            /\ ~IsLeaf(n) =>
                  /\ Len(res.children) = cnt + rcnt + 2
                  /\ \A i \in 0 .. cnt : Child(res, i) = Child(n, i)
                  /\ \A i \in 0 .. rcnt : Child(res, cnt + 1 + i) = Child(right, i)
            /\ NumItems(bench.res.right) = 0

\* two inner nodes and their separator merged into one
MergedInnerNodeFromRight ==
    /\ bench.op = "MergeFromRight"
    /\ ~IsLeaf(bench.node)
    /\ NumItems(bench.node) >= 1 /\ NumItems(bench.right) >= 1

\* C20: RebalanceChildToLeft(pos, k) with 1 <= k <= the source's count and
\* k <= the free slots of the left sibling: the keys of the left sibling,
\* the parent's key pos - 1 and the keys of the source read in this order
\* are the same sequence before and after; the left sibling has k keys
\* more and the source k fewer; the parent keeps its count, its other keys
\* and its other children; for inner children the first k children of the
\* source are the last k of the left sibling and the children of both read
\* in order are unchanged.
RebalanceChildToLeftKeepsSequence ==
    bench.op = "RebalanceChildToLeft" =>
        LET p == bench.parent
            pos == bench.pos
            k == bench.count
            p1 == bench.res
            left0 == Child(p, pos - 1)
            src0 == Child(p, pos)
            left1 == Child(p1, pos - 1)
            src1 == Child(p1, pos)
        IN  /\ left1.keys \o <<Key(p1, pos - 1)>> \o src1.keys
                 = left0.keys \o <<Key(p, pos - 1)>> \o src0.keys
            /\ NumItems(left1) = NumItems(left0) + k
            /\ NumItems(src1) = NumItems(src0) - k
            /\ NumItems(p1) = NumItems(p)
            /\ \A i \in 0 .. NumItems(p) - 1 : i # pos - 1 => Key(p1, i) = Key(p, i)
            /\ \A i \in 0 .. NumItems(p) : i \notin {pos - 1, pos} => Child(p1, i) = Child(p, i)
            /\ IsLeaf(left1) = IsLeaf(left0) /\ IsLeaf(src1) = IsLeaf(src0)
            /\ ~IsLeaf(src0) =>
                  /\ Len(left1.children) = NumItems(left1) + 1
                  /\ Len(src1.children) = NumItems(src1) + 1
                  /\ \A i \in 0 .. k - 1 :
                        Child(left1, NumItems(left0) + 1 + i) = Child(src0, i)
                  /\ left1.children \o src1.children = left0.children \o src0.children

\* two keys or more moved between inner nodes
MovedSeveralToLeftInnerSibling ==
    /\ bench.op = "RebalanceChildToLeft"
    /\ ~IsLeaf(Child(bench.parent, bench.pos))
    /\ bench.count >= 2

SplitOfFullNodeKeepsMinFill ==
    bench.op = "Split" /\ NumItems(bench.node) = MaxItems(bench.node) =>
        LET n == bench.node
            m == MaxItems(n) \div 2
        IN  /\ NumItems(bench.res.left) = m
            /\ NumItems(bench.res.right) = MaxItems(n) - m - 1
            /\ NumItems(bench.res.left) >= MinItems(n)
            /\ NumItems(bench.res.right) >= MinItems(n)

\* the sibling that the rebalance branch of MergeOrRebalanceChild takes
\* items from
DonorPos(p, pos) == IF pos < NumItems(p) THEN pos + 1 ELSE pos - 1

\* a call on a child one key short of MinItems whose siblings hold between
\* MinItems and MaxItems keys
OneShortBesideFilledSiblings(p, pos) ==
    /\ NumItems(Child(p, pos)) = MinItems(Child(p, pos)) - 1
    /\ \A q \in {pos - 1, pos + 1} \cap (0 .. NumItems(p)) :
          /\ NumItems(Child(p, q)) >= MinItems(Child(p, q))
          /\ NumItems(Child(p, q)) <= MaxItems(Child(p, q))

\* the rebalance branch moved at least one item and fewer than the donor held
\* and left both nodes with MinItems keys or more
RebalanceRefills(p, pos, res) ==
    LET child == Child(p, pos)
        donor == Child(p, DonorPos(p, pos))
        to_move == (NumItems(donor) - NumItems(child)) \div 2
    IN  /\ to_move >= 1
        /\ to_move < NumItems(donor)
        /\ NumItems(Child(res.parent, pos)) = NumItems(child) + to_move
        /\ NumItems(Child(res.parent, DonorPos(p, pos))) = NumItems(donor) - to_move
        /\ NumItems(Child(res.parent, pos)) >= MinItems(child)
        /\ NumItems(Child(res.parent, DonorPos(p, pos))) >= MinItems(donor)

\* C23: when MergeOrRebalanceChild(pos) rebalances (returns nullptr) a child
\* holding MinItems - 1 keys whose siblings each hold between MinItems and
\* MaxItems keys, it moves (sibling count - child count) / 2 items, which
\* is at least 1 and less than the sibling's count, both nodes hold
\* MinItems keys or more afterwards, and no assert fails, neither the one on
\* to_move nor those of the rebalance primitive called.
RebalanceBranchMeetsAsserts ==
    bench.op = "calls" =>
        \A i \in 1 .. Len(bench.calls) :
            LET c == bench.calls[i] IN
            IsNull(c.res.retired) /\ OneShortBesideFilledSiblings(c.parent, c.pos) =>
                /\ RebalanceRefills(c.parent, c.pos, c.res)
                /\ MergeOrRebalanceChildAsserts(c.parent, c.pos)

\* every record but the top one holds the index of the child that the next
\* record holds
LinksChildren(path) ==
    \A i \in 1 .. Depth(path) - 1 :
        LET rec == path.record_[i] IN
        IF rec.pos <= NumItems(rec.node)
        THEN Child(rec.node, rec.pos) = path.record_[i + 1].node
        ELSE FALSE

\* C24: for every two consecutive records i, i + 1 of a path,
\* Node(i).Child(Position(i)) = Node(i + 1); this holds for the path of a
\* descent and, when the top record holds the index count, after DigRight.
PathRecordsLinkChildren ==
    bench.op = "DigRight" =>
        /\ LinksChildren(bench.path)
        /\ LET top == bench.path.record_[Depth(bench.path)] IN
           top.pos = NumItems(top.node) => LinksChildren(bench.res)

\* C25: SetCmd::Set with SET_IF_NOTEXIST on a key that exists, or with
\* SET_IF_EXISTS on a key that does not, returns SKIPPED and leaves the
\* DbSlice (values and expiries) and *prev_val as they were; in every other
\* case it returns OK and the key maps to the given value; the SET command
\* replies null exactly when the result was SKIPPED.
SetSkipsOrStores ==
    /\ call.op = "SET" /\ ~call.set.made => \A i \in 1 .. Len(reply) : reply[i] # Null
    /\ call.op # "none" /\ call.set.made =>
          LET c == call.set
              existed == HasEntry(call.before[c.key])
              skip == \/ c.params.how = "SET_IF_NOTEXIST" /\ existed
                      \/ c.params.how = "SET_IF_EXISTS" /\ ~existed
          IN  /\ skip => /\ c.status = "SKIPPED"
                         /\ db_slice = call.before
                         /\ c.prev_after = c.prev_before
              /\ ~skip => /\ c.status = "OK"
                          /\ HasEntry(db_slice[c.key])
                          /\ db_slice[c.key].str = c.value
              /\ call.op = "SET" =>
                    ((\E i \in 1 .. Len(reply) : reply[i] = Null) <=> c.status = "SKIPPED")

\* SET ... NX on a key that holds a value and an expiry was skipped and
\* replied null
SetSkippedOnKeyWithExpiry ==
    /\ call.op = "SET"
    /\ call.set.made
    /\ call.set.params.how = "SET_IF_NOTEXIST"
    /\ call.set.status = "SKIPPED"
    /\ HasEntry(call.before[call.set.key])
    /\ call.before[call.set.key].expire # 0
    /\ call.before[call.set.key].str # call.set.value
    /\ reply = <<Null>>

RECURSIVE Malformed(_)
\* an option list with EX or PX as its last word, with an expiry that is no
\* integer or not positive, or with an unknown option
Malformed(opts) ==
    IF opts = <<>>
    THEN FALSE
    ELSE LET word == ToUpper(Head(opts)) IN
         IF word \in {"EX", "PX"}
         THEN IF Len(opts) = 1
              THEN TRUE
              ELSE IF ~SimpleAtoi(opts[2]).ok \/ SimpleAtoi(opts[2]).val <= 0
                   THEN TRUE
                   ELSE Malformed(Tail(Tail(opts)))
         ELSE IF word \in {"NX", "XX", "KEEPTTL"}
              THEN Malformed(Tail(opts))
              ELSE TRUE

\* C26: StringFamily::Set sends exactly one reply per command; when an
\* option is malformed the reply is an error, no argument beyond the end
\* of the argument list is read and the key is not set.
SetRepliesOnce ==
    call.op = "SET" =>
        /\ Len(reply) = 1
        /\ Malformed(SubSeq(call.args, 4, Len(call.args))) =>
              /\ reply[1].type = "error"
              /\ ~call.read_beyond
              /\ db_slice = call.before

====
